---- MODULE Spec2Model ----
(***************************************************************************)
(* A model of openbb_terminal/integration_testing.py: the script locator   *)
(* (build_test_path_list), the replay of one script (run_scripts) and the  *)
(* batch runner (run_test_files).                                          *)
(*                                                                         *)
(* Python strings are sequences of one-character strings, so that the      *)
(* substring tests, replacements and splits of the source are computed     *)
(* character by character.  A pathlib.Path is the sequence of its parts    *)
(* below the filesystem root (every path of the model is absolute).        *)
(***************************************************************************)
EXTENDS Integers, Sequences, FiniteSets, Bags, TLC

VARIABLES
    \* build_test_path_list
    path_list, frag_idx, bt_test_files, final_path_list, lpc,
    \* run_scripts
    path, test_mode, verbose, routines_args, special_arguments, output,
    disk, pc, raw_lines, lines, export_folder, file_cmds, exc,
    stdout, saved,
    \* run_test_files
    test_files, i_file, SUCCESSES, FAILURES, fails, bpc, DEBUG_MODE, attempts,
    \* everything written to the console or to standard output, in order
    out

locator_vars == <<path_list, frag_idx, bt_test_files, final_path_list, lpc>>
run_vars == <<path, test_mode, verbose, routines_args, special_arguments, output,
              disk, pc, raw_lines, lines, export_folder, file_cmds, exc,
              stdout, saved>>
batch_vars == <<test_files, i_file, SUCCESSES, FAILURES, fails, bpc, DEBUG_MODE,
                attempts>>
vars == <<locator_vars, run_vars, batch_vars, out>>

(***************************************************************************)
(* Bounds of the model.                                                    *)
(***************************************************************************)
\* longest list of path fragments given to build_test_path_list
MaxFrags == 2
\* most lines in the script file replayed by a stand-alone run_scripts
MaxLines == 2
\* longest list of scripts given to run_test_files
MaxFiles == 3

(***************************************************************************)
(* Python's str methods, on sequences of characters.                       *)
(***************************************************************************)
\* s[i:].startswith(p), i counted from 1
StartsWithAt(s, i, p) ==
    /\ i + Len(p) - 1 <= Len(s)
    /\ SubSeq(s, i, i + Len(p) - 1) = p

\* p in s
str_contains(s, p) ==
    \E i \in 1..(Len(s) - Len(p) + 1) : StartsWithAt(s, i, p)

\* s.endswith(p)
str_endswith(s, p) ==
    /\ Len(p) <= Len(s)
    /\ SubSeq(s, Len(s) - Len(p) + 1, Len(s)) = p

RECURSIVE ReplaceFrom(_, _, _, _)
ReplaceFrom(s, i, old, new) ==
    IF i > Len(s) THEN <<>>
    ELSE IF StartsWithAt(s, i, old)
         THEN new \o ReplaceFrom(s, i + Len(old), old, new)
         ELSE <<s[i]>> \o ReplaceFrom(s, i + 1, old, new)

\* s.replace(old, new): every non-overlapping occurrence, leftmost first
str_replace(s, old, new) == ReplaceFrom(s, 1, old, new)

RECURSIVE SplitFrom(_, _, _, _)
SplitFrom(s, i, sep, cur) ==
    IF i > Len(s) THEN <<cur>>
    ELSE IF StartsWithAt(s, i, sep)
         THEN <<cur>> \o SplitFrom(s, i + Len(sep), sep, <<>>)
         ELSE SplitFrom(s, i + 1, sep, Append(cur, s[i]))

\* s.split(sep)
str_split(s, sep) == SplitFrom(s, 1, sep, <<>>)

Whitespace == {" ", "\t", "\n"}

RECURSIVE WordsFrom(_, _, _)
WordsFrom(s, i, cur) ==
    IF i > Len(s) THEN (IF cur = <<>> THEN <<>> ELSE <<cur>>)
    ELSE IF s[i] \in Whitespace
         THEN (IF cur = <<>> THEN <<>> ELSE <<cur>>) \o WordsFrom(s, i + 1, <<>>)
         ELSE WordsFrom(s, i + 1, Append(cur, s[i]))

\* s.split(): the runs of non-whitespace characters
str_split_ws(s) == WordsFrom(s, 1, <<>>)

RECURSIVE str_rstrip(_)
\* s.rstrip()
str_rstrip(s) ==
    IF s # <<>> /\ s[Len(s)] \in Whitespace
    THEN str_rstrip(SubSeq(s, 1, Len(s) - 1))
    ELSE s

RECURSIVE StripLeft(_, _)
StripLeft(s, c) ==
    IF s # <<>> /\ s[1] = c THEN StripLeft(Tail(s), c) ELSE s

RECURSIVE StripRight(_, _)
StripRight(s, c) ==
    IF s # <<>> /\ s[Len(s)] = c THEN StripRight(SubSeq(s, 1, Len(s) - 1), c) ELSE s

\* s.strip("\n")
str_strip_nl(s) == StripRight(StripLeft(s, "\n"), "\n")

RECURSIVE str_join(_, _)
\* sep.join(xs)
str_join(xs, sep) ==
    IF xs = <<>> THEN <<>>
    ELSE IF Len(xs) = 1 THEN xs[1]
    ELSE xs[1] \o sep \o str_join(Tail(xs), sep)

(***************************************************************************)
(* The filesystem below MISCELLANEOUS_DIRECTORY, and pathlib.              *)
(***************************************************************************)
N_m == <<"m">>
N_scripts == <<"s", "c", "r", "i", "p", "t", "s">>
N_a == <<"a", ".", "o", "p", "e", "n", "b", "b">>
N_n == <<"n", ".", "t", "x", "t">>
N_d == <<"d">>
N_b == <<"b", ".", "o", "p", "e", "n", "b", "b">>
N_e == <<"e", ".", "o", "p", "e", "n", "b", "b">>
N_c == <<"c", ".", "o", "p", "e", "n", "b", "b">>
N_k == <<"k", ".", "t", "x", "t">>
DOTDOT == <<".", ".">>
SLASH == <<"/">>
\* ".openbb"
EXT == <<".", "o", "p", "e", "n", "b", "b">>

\* /m
MISCELLANEOUS_DIRECTORY == <<N_m>>
\* MISCELLANEOUS_DIRECTORY / "scripts"
ScriptsRoot == MISCELLANEOUS_DIRECTORY \o <<N_scripts>>

\* The directories and the regular files that exist, by canonical path:
\*   /m/scripts/a.openbb   /m/scripts/n.txt
\*   /m/scripts/d/b.openbb
\*   /m/scripts/d/e.openbb/          (a directory whose name ends in .openbb)
\*   /m/scripts/d/e.openbb/c.openbb  /m/scripts/d/e.openbb/k.txt
Dirs == { <<>>, MISCELLANEOUS_DIRECTORY, ScriptsRoot,
          ScriptsRoot \o <<N_d>>, ScriptsRoot \o <<N_d, N_e>> }
Files == { ScriptsRoot \o <<N_a>>, ScriptsRoot \o <<N_n>>,
           ScriptsRoot \o <<N_d, N_b>>,
           ScriptsRoot \o <<N_d, N_e, N_c>>, ScriptsRoot \o <<N_d, N_e, N_k>> }

\* The result of a failed lookup.
NoEntry == << <<"ENOENT">> >>

\* The parts of a path string: split on "/", without empty and "." parts
\* (pathlib keeps ".." parts).
pathlib_parts(s) ==
    SelectSeq(str_split(s, SLASH), LAMBDA x : x # <<>> /\ x # <<".">>)

\* base / s: an absolute s replaces base
PathJoin(base, s) ==
    IF s # <<>> /\ s[1] = "/" THEN pathlib_parts(s) ELSE base \o pathlib_parts(s)

\* str(p)
PathStr(p) == SLASH \o str_join(p, SLASH)

\* Path(s), s an absolute path string
PathOfStr(s) == pathlib_parts(s)

RECURSIVE ResolveFrom(_, _, _)
ResolveFrom(cur, p, n) ==
    IF n > Len(p) THEN cur
    ELSE IF cur \notin Dirs THEN NoEntry
    ELSE IF p[n] = DOTDOT
         THEN ResolveFrom(IF cur = <<>> THEN <<>> ELSE SubSeq(cur, 1, Len(cur) - 1),
                          p, n + 1)
    ELSE IF (cur \o <<p[n]>>) \in (Dirs \cup Files)
         THEN ResolveFrom(cur \o <<p[n]>>, p, n + 1)
         ELSE NoEntry

\* What the operating system finds at p: the canonical path of the entry,
\* every ".." followed, or NoEntry.
Resolve(p) == ResolveFrom(<<>>, p, 1)

path_exists(p) == Resolve(p) # NoEntry
path_is_file(p) == Resolve(p) \in Files
path_is_dir(p) == Resolve(p) \in Dirs

ChildrenOf(canon) ==
    { n \in Dirs \cup Files :
        Len(n) = Len(canon) + 1 /\ SubSeq(n, 1, Len(canon)) = canon }

RECURSIVE WalkEverything(_, _)
\* The walk without the test of the extension.
WalkEverything(root, canon) ==
    { root \o SLASH \o f[Len(f)] : f \in ChildrenOf(canon) \cap Files }
    \cup UNION { WalkEverything(root \o SLASH \o d[Len(d)], d) :
                   d \in ChildrenOf(canon) \cap Dirs }

RECURSIVE WalkMatches(_, _)
\* The strings f"{root}/{name}" of the loop over os.walk(script_path): root
\* is the string of the directory walked, canon the directory it names.
WalkMatches(root, canon) ==
    { root \o SLASH \o f[Len(f)] :
        f \in { g \in ChildrenOf(canon) \cap Files : str_endswith(g[Len(g)], EXT) } }
    \cup UNION { WalkMatches(root \o SLASH \o d[Len(d)], d) :
                   d \in ChildrenOf(canon) \cap Dirs }

\* The order of the characters that occur in path names (their code points).
CodeOrder == <<".", "a", "b", "c", "d", "e", "i", "k", "m", "n", "o", "p", "r",
               "s", "t", "x", "z">>
Ord(c) == CHOOSE n \in 1..Len(CodeOrder) : CodeOrder[n] = c

RECURSIVE StrLess(_, _)
\* a < b for strings
StrLess(a, b) ==
    IF b = <<>> THEN FALSE
    ELSE IF a = <<>> THEN TRUE
    ELSE IF a[1] = b[1] THEN StrLess(Tail(a), Tail(b))
    ELSE Ord(a[1]) < Ord(b[1])

RECURSIVE PathLess(_, _)
\* p < q for paths: their parts compared as lists
PathLess(p, q) ==
    IF q = <<>> THEN FALSE
    ELSE IF p = <<>> THEN TRUE
    ELSE IF p[1] = q[1] THEN PathLess(Tail(p), Tail(q))
    ELSE StrLess(p[1], q[1])

RECURSIVE InsertSorted(_, _)
InsertSorted(x, xs) ==
    IF xs = <<>> THEN <<x>>
    ELSE IF PathLess(x, xs[1]) THEN <<x>> \o xs
    ELSE <<xs[1]>> \o InsertSorted(x, Tail(xs))

RECURSIVE sorted(_)
\* sorted(xs) for a list of paths
sorted(xs) ==
    IF xs = <<>> THEN <<>> ELSE InsertSorted(xs[1], sorted(Tail(xs)))

RECURSIVE ListOfSet(_)
\* The elements of a set as a list, in the order the iteration yields them.
ListOfSet(S) ==
    IF S = {} THEN <<>>
    ELSE LET x == CHOOSE y \in S : TRUE IN <<x>> \o ListOfSet(S \ {x})

\* The path fragments a caller may give:
\*   ""  "a.openbb"  "n.txt"  "d"  "d/../a.openbb"  "zz"  "d/e.openbb"
\*   "./d/b.openbb"
F_all == <<>>
F_a == <<"a", ".", "o", "p", "e", "n", "b", "b">>
F_n == <<"n", ".", "t", "x", "t">>
F_d == <<"d">>
F_up == <<"d", "/", ".", ".", "/", "a", ".", "o", "p", "e", "n", "b", "b">>
F_zz == <<"z", "z">>
F_e == <<"d", "/", "e", ".", "o", "p", "e", "n", "b", "b">>
F_b == <<".", "/", "d", "/", "b", ".", "o", "p", "e", "n", "b", "b">>
Fragments == {F_all, F_a, F_n, F_d, F_up, F_zz, F_e, F_b}

SeqsUpTo(S, n) == UNION { [1..m -> S] : m \in 0..n }

(***************************************************************************)
(* Values of the variables of an operation that is not running.            *)
(***************************************************************************)
NoSpecial == [supplied |-> FALSE, dict |-> <<>>]

LocatorIdle ==
    /\ path_list = <<>>
    /\ frag_idx = 1
    /\ bt_test_files = EmptyBag
    /\ final_path_list = <<>>
    /\ lpc = "idle"

RunIdle ==
    /\ path = <<>>
    /\ test_mode = FALSE
    /\ verbose = FALSE
    /\ routines_args = <<>>
    /\ special_arguments = NoSpecial
    /\ output = TRUE
    /\ disk = <<>>
    /\ pc = "idle"
    /\ raw_lines = <<>>
    /\ lines = <<>>
    /\ export_folder = <<>>
    /\ file_cmds = <<>>
    /\ exc = "none"
    /\ stdout = "tty"
    /\ saved = <<>>

BatchIdle ==
    /\ test_files = <<>>
    /\ i_file = 0
    /\ SUCCESSES = 0
    /\ FAILURES = 0
    /\ fails = {}
    /\ bpc = "idle"
    /\ DEBUG_MODE = FALSE
    /\ attempts = <<>>

\* console.print(...) and print(...): the text goes to the stream that is
\* standard output at the time of the call.
Emit(kind, text) == Append(out, [src |-> kind, arg |-> text, to |-> stdout])

(***************************************************************************)
(* build_test_path_list.  A list is never equal to "", so the early return *)
(* of the source is not taken for a list of fragments.                     *)
(***************************************************************************)
\* script_path = MISCELLANEOUS_DIRECTORY / "scripts" / path
script_path == PathJoin(ScriptsRoot, path_list[frag_idx])

InitLocator ==
    /\ path_list \in SeqsUpTo(Fragments, MaxFrags)
    /\ frag_idx = 1
    /\ bt_test_files = EmptyBag
    /\ final_path_list = <<>>
    /\ lpc = "loop"
    /\ RunIdle
    /\ BatchIdle
    /\ out = <<>>

\* The fragment does not exist: a diagnostic, and on to the next fragment.
BTPL_Missing ==
    /\ lpc = "loop"
    /\ frag_idx <= Len(path_list)
    /\ ~path_exists(script_path)
    /\ out' = Emit("cant_find", PathStr(script_path))
    /\ frag_idx' = frag_idx + 1
    /\ UNCHANGED <<path_list, bt_test_files, final_path_list, lpc>>
    /\ UNCHANGED <<run_vars, batch_vars>>

\* The fragment is a file whose string ends in .openbb.
BTPL_File ==
    /\ lpc = "loop"
    /\ frag_idx <= Len(path_list)
    /\ path_exists(script_path)
    /\ path_is_file(script_path) /\ str_endswith(PathStr(script_path), EXT)
    /\ bt_test_files' = bt_test_files (+) SetToBag({PathStr(script_path)})
    /\ frag_idx' = frag_idx + 1
    /\ UNCHANGED <<path_list, final_path_list, lpc, out>>
    /\ UNCHANGED <<run_vars, batch_vars>>

\* The fragment is a directory: every .openbb file os.walk finds below it.
BTPL_Dir ==
    /\ lpc = "loop"
    /\ frag_idx <= Len(path_list)
    /\ path_exists(script_path)
    /\ ~(path_is_file(script_path) /\ str_endswith(PathStr(script_path), EXT))
    /\ path_is_dir(script_path)
    /\ bt_test_files' = bt_test_files (+)
           SetToBag(WalkMatches(PathStr(script_path), Resolve(script_path)))
    /\ frag_idx' = frag_idx + 1
    /\ UNCHANGED <<path_list, final_path_list, lpc, out>>
    /\ UNCHANGED <<run_vars, batch_vars>>

\* The fragment exists and is neither: a file of another extension.
BTPL_Other ==
    /\ lpc = "loop"
    /\ frag_idx <= Len(path_list)
    /\ path_exists(script_path)
    /\ ~(path_is_file(script_path) /\ str_endswith(PathStr(script_path), EXT))
    /\ ~path_is_dir(script_path)
    /\ frag_idx' = frag_idx + 1
    /\ UNCHANGED <<path_list, bt_test_files, final_path_list, lpc, out>>
    /\ UNCHANGED <<run_vars, batch_vars>>

\* sorted([Path(x) for x in set(test_files)])
FinalPathList(found) ==
    LET test_files_unique == BagToSet(found)
        as_list == ListOfSet(test_files_unique)
    IN sorted([n \in 1..Len(as_list) |-> PathOfStr(as_list[n])])

BTPL_Return ==
    /\ lpc = "loop"
    /\ frag_idx > Len(path_list)
    /\ final_path_list' = FinalPathList(bt_test_files)
    /\ lpc' = "done"
    /\ UNCHANGED <<path_list, frag_idx, bt_test_files, out>>
    /\ UNCHANGED <<run_vars, batch_vars>>

NextLocator ==
    \/ BTPL_Missing
    \/ BTPL_File
    \/ BTPL_Dir
    \/ BTPL_Other
    \/ BTPL_Return

SpecLocator == InitLocator /\ [][NextLocator]_vars

(***************************************************************************)
(* run_scripts: the texts it looks for and the inputs it is given.         *)
(***************************************************************************)
S_exit == <<"e", "x", "i", "t">>
S_export == <<"e", "x", "p", "o", "r", "t">>
S_export_sp == <<"e", "x", "p", "o", "r", "t", " ">>
S_hash == <<"#">>
S_reset == <<"r", "e", "s", "e", "t">>
S_argv == <<"$", "A", "R", "G", "V", "[">>
S_home == <<"/", "h", "o", "m", "e", "/">>
S_dslash == <<"/", "/">>
S_dollar_brace == <<"$", "{">>
SPACE == <<" ">>

\* The lines a script file may hold, each with its line end:
\*   "load A"  "exit"  "show exits"  "export r"  "load A --export c"  "# c"
\*   ""  "buy $ARGV[0] $ARGV[1]"  "p ${ticker=G}/q ${zz=D}"
\*   "p ${ticker=G} }"  "reset"  "/stocks"
L_load == <<"l", "o", "a", "d", " ", "A", "\n">>
L_exit == <<"e", "x", "i", "t", "\n">>
L_exits == <<"s", "h", "o", "w", " ", "e", "x", "i", "t", "s", "\n">>
L_export == <<"e", "x", "p", "o", "r", "t", " ", "r", "\n">>
L_flag == <<"l", "o", "a", "d", " ", "A", " ", "-", "-", "e", "x", "p", "o", "r", "t",
            " ", "c", "\n">>
L_comment == <<"#", " ", "c", "\n">>
L_blank == <<"\n">>
L_argv == <<"b", "u", "y", " ", "$", "A", "R", "G", "V", "[", "0", "]", " ",
            "$", "A", "R", "G", "V", "[", "1", "]", "\n">>
L_named == <<"p", " ", "$", "{", "t", "i", "c", "k", "e", "r", "=", "G", "}", "/",
             "q", " ", "$", "{", "z", "z", "=", "D", "}", "\n">>
L_brace == <<"p", " ", "$", "{", "t", "i", "c", "k", "e", "r", "=", "G", "}", " ",
             "}", "\n">>
L_reset == <<"r", "e", "s", "e", "t", "\n">>
L_home == <<"/", "s", "t", "o", "c", "k", "s", "\n">>
LineVocabulary == {L_load, L_exit, L_exits, L_export, L_flag, L_comment, L_blank,
                   L_argv, L_named, L_brace, L_reset, L_home}

\* routines_args: none, ["A", "1"], ["A"], ["$ARGV[1]", "X"]
A_A == <<"A">>
A_1 == <<"1">>
A_X == <<"X">>
A_inj == <<"$", "A", "R", "G", "V", "[", "1", "]">>
RoutinesArgsGiven == { <<>>, <<A_A, A_1>>, <<A_A>>, <<A_inj, A_X>> }

K_ticker == <<"t", "i", "c", "k", "e", "r">>
K_currency == <<"c", "u", "r", "r", "e", "n", "c", "y">>
K_crypto == <<"c", "r", "y", "p", "t", "o">>
K_country == <<"c", "o", "u", "n", "t", "r", "y">>
K_repo == <<"r", "e", "p", "o">>
K_crypto_vs == <<"c", "r", "y", "p", "t", "o", "_", "v", "s">>
K_crypto_full == <<"c", "r", "y", "p", "t", "o", "_", "f", "u", "l", "l">>
K_currency_vs == <<"c", "u", "r", "r", "e", "n", "c", "y", "_", "v", "s">>
special_arguments_values == {K_ticker, K_currency, K_crypto, K_country, K_repo,
                             K_crypto_vs, K_crypto_full, K_currency_vs}
V_T == <<"T">>

\* A dict is the set of its items; a key occurs in one item at most.
DictKeys(d) == { e.key : e \in d }
DictGet(d, k, default) ==
    IF k \in DictKeys(d) THEN (CHOOSE e \in d : e.key = k).value ELSE default
DictSet(d, k, v) == { e \in d : e.key # k } \cup { [key |-> k, value |-> v] }

\* special_args_dict of parse_args_and_run: one item per recognised key, ""
\* for a key whose flag is not given.  Here no flag, or --ticker T.
SpecialNoFlags ==
    [supplied |-> TRUE,
     dict |-> { [key |-> k, value |-> <<>>] : k \in special_arguments_values }]
SpecialTicker ==
    [supplied |-> TRUE,
     dict |-> DictSet(SpecialNoFlags.dict, K_ticker, V_T)]
SpecialGiven == {NoSpecial, SpecialNoFlags, SpecialTicker}

\* What a call of terminal() may do: return, raise an Exception, or raise
\* SystemExit (a BaseException that is not an Exception).
TerminalOutcomes == {"none", "Exception", "SystemExit"}

\* isinstance(e, Exception)
IsException(e) == e \in {"Exception", "FileNotFoundError", "IndexError", "OSError"}

(***************************************************************************)
(* run_scripts: reading and resolving the lines.                           *)
(***************************************************************************)
\* is_reset(x) of terminal_helper: x is the reset directive.
is_reset(x) == str_split_ws(x) = <<S_reset>>

\* The lines of the file without reset directives, lines holding "#" and
\* empty lines, each stripped of its line ends.
ReadRawLines(content) ==
    LET kept == SelectSeq(content,
                    LAMBDA x : ~is_reset(x) /\ ~str_contains(x, S_hash) /\ x # <<>>)
        nonblank == SelectSeq(kept, LAMBDA x : str_strip_nl(x) # <<>>)
    IN [n \in 1..Len(nonblank) |-> str_strip_nl(nonblank[n])]

Digits == <<"0", "1", "2", "3", "4", "5", "6", "7", "8", "9">>
RECURSIVE IntStr(_)
\* str(n)
IntStr(n) ==
    IF n < 10 THEN <<Digits[n + 1]>>
    ELSE IntStr(n \div 10) \o <<Digits[(n % 10) + 1]>>

\* f"$ARGV[{n}]"
ArgvToken(n) == S_argv \o IntStr(n) \o <<"]">>

RECURSIVE ReplaceArgs(_, _, _)
\* The loop over enumerate(routines_args), from the argument of index n - 1:
\* each replacement is applied to the result of the one before.
ReplaceArgs(templine, args, n) ==
    IF n > Len(args) THEN templine
    ELSE ReplaceArgs(str_replace(templine, ArgvToken(n - 1), args[n]), args, n + 1)

\* The least index >= from of a "{" in s, or Len(s) + 1.
FirstBrace(s, from) ==
    LET at == { n \in from..Len(s) : s[n] = "{" }
    IN IF at = {} THEN Len(s) + 1 ELSE CHOOSE n \in at : \A m \in at : n <= m

SetMax(S) == CHOOSE n \in S : \A m \in S : m <= n

\* The last index of the match of \${[^{]+=[^{]+} that starts at index n of
\* s, or 0.  Both groups are greedy: the first takes the last "=" after which
\* a "}" still follows, the second the last "}", neither crossing a "{".
MatchEndAt(s, n) ==
    IF ~StartsWithAt(s, n, S_dollar_brace) THEN 0
    ELSE LET lim == FirstBrace(s, n + 2)
             closes(a) == { b \in (a + 2)..(lim - 1) : s[b] = "}" }
             eqs == { a \in (n + 3)..(lim - 1) : s[a] = "=" /\ closes(a) # {} }
         IN IF eqs = {} THEN 0 ELSE SetMax(closes(SetMax(eqs)))

\* replace_dynamic(match, special_arguments) of terminal_controller: the
\* value of special_arguments for the key of ${key=default} when there is
\* one and it is not empty, the default otherwise.
replace_dynamic(match, special) ==
    LET body == SubSeq(match, 3, Len(match) - 1)
        eq == CHOOSE n \in 1..Len(body) :
                  body[n] = "=" /\ \A m \in 1..(n - 1) : body[m] # "="
        key == SubSeq(body, 1, eq - 1)
        default == SubSeq(body, eq + 1, Len(body))
        value == DictGet(special.dict, key, <<>>)
    IN IF value # <<>> THEN value ELSE default

RECURSIVE ReSubFrom(_, _, _)
\* re.sub(pattern, replace_dynamic, line): the matches, leftmost first, none
\* overlapping another.
ReSubFrom(s, n, special) ==
    IF n > Len(s) THEN <<>>
    ELSE LET b == MatchEndAt(s, n)
         IN IF b > 0
            THEN replace_dynamic(SubSeq(s, n, b), special) \o ReSubFrom(s, b + 1, special)
            ELSE <<s[n]>> \o ReSubFrom(s, n + 1, special)

\* bool(special_arguments): None and the empty dict are false.
SpecialTruthy(special) == special.supplied /\ special.dict # {}

\* The lines after the substitution: by position when routines_args is not
\* empty, else by name when special_arguments is, else as they are.
ResolveLines(raws, args, special) ==
    IF args # <<>>
    THEN [n \in 1..Len(raws) |-> ReplaceArgs(raws[n], args, 1)]
    ELSE IF SpecialTruthy(special)
    THEN [n \in 1..Len(raws) |-> ReSubFrom(raws[n], 1, special)]
    ELSE raws

\* lines.append("exit") unless "exit" occurs in the last line
AppendExit(ls) ==
    IF ~str_contains(ls[Len(ls)], S_exit) THEN Append(ls, S_exit) ELSE ls

\* "export" in lines[0]
HasExport(ls) == str_contains(ls[1], S_export)

\* insert_start_slash(cmds) of terminal_controller: the first token begins
\* with the separator.
insert_start_slash(cmds) ==
    IF cmds[1] # <<>> /\ cmds[1][1] = "/" THEN cmds
    ELSE [cmds EXCEPT ![1] = SLASH \o cmds[1]]

\* The command path of the lines: joined with "/", "//" made "/home/", split
\* on whitespace.
TranslatedPath(ls) ==
    LET simulate_argv == SLASH \o str_join([n \in 1..Len(ls) |-> str_rstrip(ls[n])], SLASH)
        cmds == str_split_ws(str_replace(simulate_argv, S_dslash, S_home))
    IN str_join(IF cmds # <<>> THEN insert_start_slash(cmds) ELSE cmds, SPACE)

\* file_cmds: a list of one invocation string
Translate(ls, folder) ==
    IF folder # <<>>
    THEN << S_export_sp \o folder \o TranslatedPath(ls) >>
    ELSE << TranslatedPath(ls) >>

(***************************************************************************)
(* run_scripts, one action per step.  disk holds the regular files present *)
(* while it runs, each with its lines.                                     *)
(***************************************************************************)
\* path.exists()
rs_exists == \E f \in disk : f[1] = Resolve(path)

\* the lines of the file at path
FileLines == (CHOOSE f \in disk : f[1] = Resolve(path))[2]

\* A call of terminal: what it is given and where standard output points.
TerminalCall(arg) == Append(out, [src |-> "terminal", arg |-> arg, to |-> stdout])

InitRun ==
    /\ path = ScriptsRoot \o <<N_a>>
    /\ disk \in { {} } \cup
                { { <<ScriptsRoot \o <<N_a>>, content>> } :
                      content \in SeqsUpTo(LineVocabulary, MaxLines) }
    /\ test_mode \in BOOLEAN
    /\ verbose \in BOOLEAN
    /\ output \in BOOLEAN
    /\ routines_args \in RoutinesArgsGiven
    /\ special_arguments \in SpecialGiven
    /\ pc = "check"
    /\ raw_lines = <<>>
    /\ lines = <<>>
    /\ export_folder = <<>>
    /\ file_cmds = <<>>
    /\ exc = "none"
    /\ stdout = "tty"
    /\ saved = <<>>
    /\ LocatorIdle
    /\ BatchIdle
    /\ out = <<>>

RS_PathExists ==
    /\ pc = "check"
    /\ rs_exists
    /\ pc' = "open"
    /\ UNCHANGED <<path, test_mode, verbose, routines_args, special_arguments, output,
                   disk, raw_lines, lines, export_folder, file_cmds, exc, stdout, saved>>
    /\ UNCHANGED <<locator_vars, batch_vars, out>>

\* The file does not exist: the diagnostic, outside test mode a call of
\* terminal() with no script, and then the function goes on.
RS_PathMissing ==
    /\ pc = "check"
    /\ ~rs_exists
    /\ IF test_mode
       THEN /\ out' = Emit("doesnt_exist", PathStr(path))
            /\ pc' = "open"
            /\ exc' = exc
       ELSE \E r \in TerminalOutcomes :
            /\ out' = Append(Emit("doesnt_exist", PathStr(path)),
                             [src |-> "terminal_interactive", arg |-> <<>>,
                              to |-> stdout])
            /\ pc' = IF r = "none" THEN "open" ELSE "raised"
            /\ exc' = r
    /\ UNCHANGED <<path, test_mode, verbose, routines_args, special_arguments, output,
                   disk, raw_lines, lines, export_folder, file_cmds, stdout, saved>>
    /\ UNCHANGED <<locator_vars, batch_vars>>

\* path.open() of a missing file raises FileNotFoundError.
RS_OpenMissing ==
    /\ pc = "open"
    /\ ~rs_exists
    /\ pc' = "raised"
    /\ exc' = "FileNotFoundError"
    /\ UNCHANGED <<path, test_mode, verbose, routines_args, special_arguments, output,
                   disk, raw_lines, lines, export_folder, file_cmds, stdout, saved>>
    /\ UNCHANGED <<locator_vars, batch_vars, out>>

RS_ReadLines ==
    /\ pc = "open"
    /\ rs_exists
    /\ raw_lines' = ReadRawLines(FileLines)
    /\ pc' = "resolve"
    /\ UNCHANGED <<path, test_mode, verbose, routines_args, special_arguments, output,
                   disk, lines, export_folder, file_cmds, exc, stdout, saved>>
    /\ UNCHANGED <<locator_vars, batch_vars, out>>

RS_Resolve ==
    /\ pc = "resolve"
    /\ lines' = ResolveLines(raw_lines, routines_args, special_arguments)
    /\ pc' = "append_exit"
    /\ UNCHANGED <<path, test_mode, verbose, routines_args, special_arguments, output,
                   disk, raw_lines, export_folder, file_cmds, exc, stdout, saved>>
    /\ UNCHANGED <<locator_vars, batch_vars, out>>

\* if test_mode and "exit" not in lines[-1]: lines[-1] of no lines raises
\* IndexError, and is not evaluated outside test mode.
RS_AppendExit ==
    /\ pc = "append_exit"
    /\ IF test_mode /\ lines = <<>>
       THEN /\ pc' = "raised"
            /\ exc' = "IndexError"
            /\ lines' = lines
       ELSE /\ pc' = "export"
            /\ exc' = exc
            /\ lines' = IF test_mode THEN AppendExit(lines) ELSE lines
    /\ UNCHANGED <<path, test_mode, verbose, routines_args, special_arguments, output,
                   disk, raw_lines, export_folder, file_cmds, stdout, saved>>
    /\ UNCHANGED <<locator_vars, batch_vars, out>>

\* if "export" in lines[0]: the folder is what follows "export " in the
\* line, and the line is dropped.  lines[0] of no lines, and [1] of a split
\* that found no "export ", raise IndexError.
RS_Export ==
    /\ pc = "export"
    /\ IF lines = <<>>
       THEN /\ pc' = "raised" /\ exc' = "IndexError"
            /\ UNCHANGED <<lines, export_folder>>
       ELSE IF HasExport(lines)
       THEN IF Len(str_split(lines[1], S_export_sp)) < 2
            THEN /\ pc' = "raised" /\ exc' = "IndexError"
                 /\ UNCHANGED <<lines, export_folder>>
            ELSE /\ export_folder' = str_rstrip(str_split(lines[1], S_export_sp)[2])
                 /\ lines' = Tail(lines)
                 /\ pc' = "translate" /\ exc' = exc
       ELSE /\ pc' = "translate" /\ exc' = exc
            /\ UNCHANGED <<lines, export_folder>>
    /\ UNCHANGED <<path, test_mode, verbose, routines_args, special_arguments, output,
                   disk, raw_lines, file_cmds, stdout, saved>>
    /\ UNCHANGED <<locator_vars, batch_vars, out>>

RS_Translate ==
    /\ pc = "translate"
    /\ file_cmds' = Translate(lines, export_folder)
    /\ pc' = "launch"
    /\ UNCHANGED <<path, test_mode, verbose, routines_args, special_arguments, output,
                   disk, raw_lines, lines, export_folder, exc, stdout, saved>>
    /\ UNCHANGED <<locator_vars, batch_vars, out>>

\* if not test_mode or verbose: terminal(file_cmds, test_mode=True)
RS_LaunchDirect ==
    /\ pc = "launch"
    /\ ~test_mode \/ verbose
    /\ \E r \in TerminalOutcomes :
        /\ out' = TerminalCall(file_cmds[1])
        /\ pc' = IF r = "none" THEN "returned" ELSE "raised"
        /\ exc' = r
    /\ UNCHANGED <<path, test_mode, verbose, routines_args, special_arguments, output,
                   disk, raw_lines, lines, export_folder, file_cmds, stdout, saved>>
    /\ UNCHANGED <<locator_vars, batch_vars>>

\* suppress_stdout() of terminal_helper points standard output at the null
\* device for the time of the block.
SuppressedStream == "devnull"

\* with suppress_stdout(): the block is entered
RS_EnterSuppress ==
    /\ pc = "launch"
    /\ test_mode /\ ~verbose
    /\ saved' = Append(saved, stdout)
    /\ stdout' = SuppressedStream
    /\ pc' = "capture"
    /\ UNCHANGED <<path, test_mode, verbose, routines_args, special_arguments, output,
                   disk, raw_lines, lines, export_folder, file_cmds, exc>>
    /\ UNCHANGED <<locator_vars, batch_vars, out>>

\* print(f"To ensure: {output}"), then with output the capture file is
\* made and standard output redirected to it.
RS_CaptureOpen ==
    /\ pc = "capture"
    /\ output
    /\ Len(str_split(file_cmds[1], SLASH)) >= 2
    /\ out' = Emit("ensure", <<>>)
    /\ saved' = Append(saved, stdout)
    /\ stdout' = "file"
    /\ pc' = "terminal"
    /\ UNCHANGED <<path, test_mode, verbose, routines_args, special_arguments, output,
                   disk, raw_lines, lines, export_folder, file_cmds, exc>>
    /\ UNCHANGED <<locator_vars, batch_vars>>

\* The directory or the capture file cannot be made (OSError), or
\* file_cmds[0].split("/")[1] does not exist (IndexError).
RS_CaptureFails ==
    /\ pc = "capture"
    /\ output
    /\ out' = Emit("ensure", <<>>)
    /\ exc' = IF Len(str_split(file_cmds[1], SLASH)) >= 2 THEN "OSError" ELSE "IndexError"
    /\ pc' = "suppress_exit"
    /\ UNCHANGED <<path, test_mode, verbose, routines_args, special_arguments, output,
                   disk, raw_lines, lines, export_folder, file_cmds, stdout, saved>>
    /\ UNCHANGED <<locator_vars, batch_vars>>

\* Without output there is no capture file.
RS_NoCapture ==
    /\ pc = "capture"
    /\ ~output
    /\ out' = Emit("ensure", <<>>)
    /\ pc' = "terminal_plain"
    /\ UNCHANGED <<path, test_mode, verbose, routines_args, special_arguments, output,
                   disk, raw_lines, lines, export_folder, file_cmds, exc, stdout, saved>>
    /\ UNCHANGED <<locator_vars, batch_vars>>

\* terminal(file_cmds, test_mode=True) inside contextlib.redirect_stdout
RS_TerminalCaptured ==
    /\ pc = "terminal"
    /\ \E r \in TerminalOutcomes :
        /\ out' = TerminalCall(file_cmds[1])
        /\ exc' = r
    /\ pc' = "redirect_exit"
    /\ UNCHANGED <<path, test_mode, verbose, routines_args, special_arguments, output,
                   disk, raw_lines, lines, export_folder, file_cmds, stdout, saved>>
    /\ UNCHANGED <<locator_vars, batch_vars>>

\* terminal(file_cmds, test_mode=True) inside suppress_stdout alone
RS_TerminalPlain ==
    /\ pc = "terminal_plain"
    /\ \E r \in TerminalOutcomes :
        /\ out' = TerminalCall(file_cmds[1])
        /\ exc' = r
    /\ pc' = "suppress_exit"
    /\ UNCHANGED <<path, test_mode, verbose, routines_args, special_arguments, output,
                   disk, raw_lines, lines, export_folder, file_cmds, stdout, saved>>
    /\ UNCHANGED <<locator_vars, batch_vars>>

\* The block of contextlib.redirect_stdout is left, by return or by raise:
\* standard output is again what it was when the block was entered.
RS_RedirectExit ==
    /\ pc = "redirect_exit"
    /\ stdout' = saved[Len(saved)]
    /\ saved' = SubSeq(saved, 1, Len(saved) - 1)
    /\ pc' = "suppress_exit"
    /\ UNCHANGED <<path, test_mode, verbose, routines_args, special_arguments, output,
                   disk, raw_lines, lines, export_folder, file_cmds, exc>>
    /\ UNCHANGED <<locator_vars, batch_vars, out>>

\* With the with statement replaced by a plain call before and after the
\* block: a raise inside the block skips the restoring call.
RS_SuppressExit_NoFinally ==
    /\ pc = "suppress_exit"
    /\ stdout' = IF exc = "none" THEN saved[Len(saved)] ELSE stdout
    /\ saved' = SubSeq(saved, 1, Len(saved) - 1)
    /\ pc' = IF exc = "none" THEN "returned" ELSE "raised"
    /\ UNCHANGED <<path, test_mode, verbose, routines_args, special_arguments, output,
                   disk, raw_lines, lines, export_folder, file_cmds, exc>>
    /\ UNCHANGED <<locator_vars, batch_vars, out>>

\* The block of with suppress_stdout() is left, by return or by raise:
\* standard output is restored, and a pending exception goes on to the caller.
RS_SuppressExit ==
    /\ pc = "suppress_exit"
    /\ stdout' = saved[Len(saved)]
    /\ saved' = SubSeq(saved, 1, Len(saved) - 1)
    /\ pc' = IF exc = "none" THEN "returned" ELSE "raised"
    /\ UNCHANGED <<path, test_mode, verbose, routines_args, special_arguments, output,
                   disk, raw_lines, lines, export_folder, file_cmds, exc>>
    /\ UNCHANGED <<locator_vars, batch_vars, out>>

\* The steps of run_scripts that a batch run takes too.
RunScriptsSteps ==
    \/ RS_PathExists
    \/ RS_PathMissing
    \/ RS_OpenMissing
    \/ RS_ReadLines
    \/ RS_Resolve
    \/ RS_AppendExit
    \/ RS_Export
    \/ RS_Translate
    \/ RS_LaunchDirect
    \/ RS_EnterSuppress
    \/ RS_CaptureOpen
    \/ RS_CaptureFails
    \/ RS_TerminalCaptured
    \/ RS_RedirectExit
    \/ RS_SuppressExit

NextRun ==
    \/ RunScriptsSteps
    \/ RS_NoCapture
    \/ RS_TerminalPlain

SpecRun == InitRun /\ [][NextRun]_vars

(***************************************************************************)
(* run_test_files.  The list it is given is what build_test_path_list      *)
(* returns: sorted paths, no path twice.  One of the scripts has been      *)
(* removed since it was found.                                             *)
(***************************************************************************)
\* /m/scripts/a.openbb, /m/scripts/d/../a.openbb (the same file),
\* /m/scripts/d/b.openbb, /m/scripts/d/e.openbb/c.openbb
P_a == ScriptsRoot \o <<N_a>>
P_up == ScriptsRoot \o <<N_d, DOTDOT, N_a>>
P_b == ScriptsRoot \o <<N_d, N_b>>
P_c == ScriptsRoot \o <<N_d, N_e, N_c>>
ScriptPaths == {P_a, P_up, P_b, P_c}

\* a.openbb holds two commands, b.openbb only a comment, c.openbb is gone.
BatchDisk == { <<P_a, <<L_load, L_named>>>>, <<P_b, <<L_comment>>>> }

\* str(file).replace(str(MISCELLANEOUS_DIRECTORY), "")[1:]
ShortName(file) ==
    LET s == str_replace(PathStr(file), PathStr(MISCELLANEOUS_DIRECTORY), <<>>)
    IN IF s = <<>> THEN <<>> ELSE Tail(s)

Init ==
    /\ test_files \in { sorted(ListOfSet(S)) :
                          S \in { T \in SUBSET ScriptPaths : Cardinality(T) <= MaxFiles } }
    /\ verbose \in BOOLEAN
    /\ special_arguments \in {SpecialNoFlags, SpecialTicker}
    /\ disk = BatchDisk
    /\ i_file = 0
    /\ SUCCESSES = 0
    /\ FAILURES = 0
    /\ fails = {}
    /\ bpc = "start"
    /\ DEBUG_MODE = FALSE
    /\ attempts = <<>>
    /\ path = <<>>
    /\ test_mode = FALSE
    /\ routines_args = <<>>
    /\ output = TRUE
    /\ pc = "idle"
    /\ raw_lines = <<>>
    /\ lines = <<>>
    /\ export_folder = <<>>
    /\ file_cmds = <<>>
    /\ exc = "none"
    /\ stdout = "tty"
    /\ saved = <<>>
    /\ LocatorIdle
    /\ out = <<>>

\* os.environ["DEBUG_MODE"] = "true" and the counters (the clock is left out)
RTF_Start ==
    /\ bpc = "start"
    /\ DEBUG_MODE' = TRUE
    /\ SUCCESSES' = 0
    /\ FAILURES' = 0
    /\ fails' = {}
    /\ bpc' = "loop"
    /\ UNCHANGED <<test_files, i_file, attempts>>
    /\ UNCHANGED <<locator_vars, run_vars, out>>

\* The next script of the list: run_scripts(file, test_mode=True,
\* verbose=verbose, special_arguments=special_arguments, output=True)
RTF_Call ==
    /\ bpc = "loop"
    /\ i_file < Len(test_files)
    /\ path' = test_files[i_file + 1]
    /\ test_mode' = TRUE
    /\ routines_args' = <<>>
    /\ output' = TRUE
    /\ pc' = "check"
    /\ raw_lines' = <<>>
    /\ lines' = <<>>
    /\ export_folder' = <<>>
    /\ file_cmds' = <<>>
    /\ exc' = "none"
    /\ attempts' = Append(attempts, [file |-> test_files[i_file + 1],
                                     outcome |-> "running"])
    /\ bpc' = "try"
    /\ UNCHANGED <<verbose, special_arguments, disk, stdout, saved>>
    /\ UNCHANGED <<test_files, i_file, SUCCESSES, FAILURES, fails, DEBUG_MODE>>
    /\ UNCHANGED <<locator_vars, out>>

\* How the call of run_scripts ended, noted for the script it was given.
Ended == [attempts EXCEPT ![Len(attempts)].outcome = pc]

\* The progress line: green while nothing has failed, red afterwards (the
\* percentage and the padding are left out).
ProgressLine(name, failures) ==
    Emit(IF failures = 0 THEN "progress_green" ELSE "progress_red", name)

\* run_scripts returned.
RTF_Success ==
    /\ bpc = "try"
    /\ pc = "returned"
    /\ SUCCESSES' = SUCCESSES + 1
    /\ attempts' = Ended
    /\ out' = ProgressLine(ShortName(test_files[i_file + 1]), FAILURES)
    /\ i_file' = i_file + 1
    /\ pc' = "idle"
    /\ bpc' = "loop"
    /\ UNCHANGED <<test_files, FAILURES, fails, DEBUG_MODE>>
    /\ UNCHANGED <<path, test_mode, verbose, routines_args, special_arguments, output,
                   disk, raw_lines, lines, export_folder, file_cmds, exc, stdout, saved>>
    /\ UNCHANGED locator_vars

\* The handler with the count of failures left as it is.
RTF_Except_NoCount ==
    /\ bpc = "try"
    /\ pc = "raised"
    /\ IsException(exc)
    /\ fails' = DictSet(fails, ShortName(test_files[i_file + 1]), [exception |-> exc])
    /\ FAILURES' = FAILURES
    /\ attempts' = Ended
    /\ out' = ProgressLine(ShortName(test_files[i_file + 1]), FAILURES)
    /\ i_file' = i_file + 1
    /\ pc' = "idle"
    /\ bpc' = "loop"
    /\ UNCHANGED <<test_files, SUCCESSES, DEBUG_MODE>>
    /\ UNCHANGED <<path, test_mode, verbose, routines_args, special_arguments, output,
                   disk, raw_lines, lines, export_folder, file_cmds, exc, stdout, saved>>
    /\ UNCHANGED locator_vars

\* except Exception as e: the failure is recorded under the short name of
\* the script (the traceback is left out).
RTF_Except ==
    /\ bpc = "try"
    /\ pc = "raised"
    /\ IsException(exc)
    /\ fails' = DictSet(fails, ShortName(test_files[i_file + 1]), [exception |-> exc])
    /\ FAILURES' = FAILURES + 1
    /\ attempts' = Ended
    /\ out' = ProgressLine(ShortName(test_files[i_file + 1]), FAILURES + 1)
    /\ i_file' = i_file + 1
    /\ pc' = "idle"
    /\ bpc' = "loop"
    /\ UNCHANGED <<test_files, SUCCESSES, DEBUG_MODE>>
    /\ UNCHANGED <<path, test_mode, verbose, routines_args, special_arguments, output,
                   disk, raw_lines, lines, export_folder, file_cmds, exc, stdout, saved>>
    /\ UNCHANGED locator_vars

\* What was raised is no Exception: no handler takes it, and it leaves
\* run_test_files.
RTF_Propagate ==
    /\ bpc = "try"
    /\ pc = "raised"
    /\ ~IsException(exc)
    /\ attempts' = Ended
    /\ bpc' = "escaped"
    /\ UNCHANGED <<test_files, i_file, SUCCESSES, FAILURES, fails, DEBUG_MODE>>
    /\ UNCHANGED <<locator_vars, run_vars, out>>

\* The list is exhausted: return SUCCESSES, FAILURES, fails, seconds
RTF_Return ==
    /\ bpc = "loop"
    /\ i_file = Len(test_files)
    /\ bpc' = "done"
    /\ UNCHANGED <<test_files, i_file, SUCCESSES, FAILURES, fails, DEBUG_MODE, attempts>>
    /\ UNCHANGED <<locator_vars, run_vars, out>>

Next ==
    \/ RTF_Start
    \/ RTF_Call
    \/ RunScriptsSteps
    \/ RTF_Success
    \/ RTF_Except
    \/ RTF_Propagate
    \/ RTF_Return

Spec == Init /\ [][Next]_vars

(***************************************************************************)
(* The properties.                                                         *)
(***************************************************************************)
Range(xs) == { xs[n] : n \in 1..Len(xs) }

\* C1: run_test_files attempts every script of its list once, in the order
\* of the list, and whatever is raised while a script is replayed (an
\* interpreter exit too) stays inside run_test_files, which reaches its end.
C1_NothingEscapes ==
    /\ bpc # "escaped"
    /\ bpc = "done" => [n \in 1..Len(attempts) |-> attempts[n].file] = test_files

\* C2: when run_test_files returns, SUCCESSES + FAILURES is the length of
\* the list, SUCCESSES counts the scripts whose replay returned, FAILURES
\* those whose replay raised, and fails has one record for each script that
\* raised, under its short name.
C2_CountsAndKeys ==
    bpc = "done" =>
        LET returned == { n \in 1..Len(attempts) : attempts[n].outcome = "returned" }
            raised == { n \in 1..Len(attempts) : attempts[n].outcome = "raised" }
        IN /\ Len(attempts) = Len(test_files)
           /\ SUCCESSES + FAILURES = Len(test_files)
           /\ SUCCESSES = Cardinality(returned)
           /\ FAILURES = Cardinality(raised)
           /\ DictKeys(fails) = { ShortName(attempts[n].file) : n \in raised }
           /\ Cardinality(fails) = FAILURES

\* Three scripts, the first raised, the second returned: the batch went on.
C2_Witness ==
    /\ bpc = "done"
    /\ Len(test_files) = 3
    /\ attempts[1].outcome = "raised"
    /\ attempts[2].outcome = "returned"
    /\ FAILURES = 2

IsSortedPaths(ps) == \A n \in 1..(Len(ps) - 1) : PathLess(ps[n], ps[n + 1])

\* C3: what build_test_path_list returns is sorted and holds no script
\* twice, a script being the file its path names: a file reached through two
\* spellings of a fragment is there once.
C3_SortedNoDuplicates ==
    lpc = "done" =>
        /\ IsSortedPaths(final_path_list)
        /\ \A a, b \in 1..Len(final_path_list) :
               a # b => Resolve(final_path_list[a]) # Resolve(final_path_list[b])

IsBelow(g, c) == Len(g) > Len(c) /\ SubSeq(g, 1, Len(c)) = c

\* The scripts one fragment stands for: itself when it is a file ending in
\* .openbb, every file ending in .openbb at any depth below it when it is a
\* directory, nothing when it does not exist.
FragmentScripts(f) ==
    LET given == PathJoin(ScriptsRoot, f)
        c == Resolve(given)
    IN IF c = NoEntry THEN {}
       ELSE IF c \in Files
       THEN (IF str_endswith(c[Len(c)], EXT) THEN {given} ELSE {})
       ELSE { given \o SubSeq(g, Len(c) + 1, Len(g)) :
                g \in { h \in Files : IsBelow(h, c) /\ str_endswith(h[Len(h)], EXT) } }

\* C4: the paths build_test_path_list returns are exactly the scripts its
\* fragments stand for; a fragment that does not exist adds nothing and
\* stops nothing, and no file of another extension is returned.
C4_ExactlyTheScripts ==
    lpc = "done" =>
        /\ Range(final_path_list) = UNION { FragmentScripts(f) : f \in Range(path_list) }
        /\ \A q \in Range(final_path_list) :
               /\ Resolve(q) \in Files
               /\ str_endswith(Resolve(q)[Len(Resolve(q))], EXT)

\* A fragment that does not exist, then a directory with scripts at two
\* depths below it.
C4_Witness ==
    /\ lpc = "done"
    /\ Len(path_list) = 2
    /\ ~path_exists(PathJoin(ScriptsRoot, path_list[1]))
    /\ path_is_dir(PathJoin(ScriptsRoot, path_list[2]))
    /\ Len(final_path_list) >= 2
    /\ \E n \in 1..Len(out) : out[n].src = "cant_find"

RECURSIVE SubstituteAtOnce(_, _, _)
\* The line from index n on, every $ARGV[j] with j < len(args) replaced by
\* args[j] and nothing that was put in replaced again.
SubstituteAtOnce(s, args, n) ==
    IF n > Len(s) THEN <<>>
    ELSE LET hit == { j \in 0..(Len(args) - 1) : StartsWithAt(s, n, ArgvToken(j)) }
         IN IF hit = {}
            THEN <<s[n]>> \o SubstituteAtOnce(s, args, n + 1)
            ELSE LET j == CHOOSE k \in hit : TRUE
                 IN args[j + 1] \o SubstituteAtOnce(s, args, n + Len(ArgvToken(j)))

\* C5: with routines_args, each resolved line is the raw line with every
\* $ARGV[i], i < len(routines_args), replaced by routines_args[i], the other
\* tokens left, and no replacement text rewritten by another substitution.
C5_PositionalSubstitution ==
    (pc = "append_exit" /\ routines_args # <<>>) =>
        lines = [n \in 1..Len(raw_lines) |->
                    SubstituteAtOnce(raw_lines[n], routines_args, 1)]

PlainChar(c) == c \notin {"$", "{", "}", "="}

\* The last index of the run of plain characters of s that starts at n
\* (n - 1 when there is none).
PlainRunEnd(s, n) ==
    LET stops == { m \in n..Len(s) : ~PlainChar(s[m]) }
    IN IF stops = {} THEN Len(s)
       ELSE (CHOOSE m \in stops : \A k \in stops : m <= k) - 1

\* The last index of the placeholder ${key=default} that starts at index n
\* of s, key and default being runs of plain characters, or 0.
PlaceholderEnd(s, n) ==
    IF ~StartsWithAt(s, n, S_dollar_brace) THEN 0
    ELSE LET k == PlainRunEnd(s, n + 2)
         IN IF k < n + 2 \/ k + 1 > Len(s) \/ s[k + 1] # "=" THEN 0
            ELSE LET d == PlainRunEnd(s, k + 2)
                 IN IF d < k + 2 \/ d + 1 > Len(s) \/ s[d + 1] # "}" THEN 0
                    ELSE d + 1

RECURSIVE SubstituteNamed(_, _, _)
\* The line from index n on, every placeholder replaced by the value given
\* for its key when there is one and it is not empty, by its default
\* otherwise, and every other character kept.
SubstituteNamed(s, special, n) ==
    IF n > Len(s) THEN <<>>
    ELSE LET e == PlaceholderEnd(s, n)
         IN IF e = 0
            THEN <<s[n]>> \o SubstituteNamed(s, special, n + 1)
            ELSE LET k == PlainRunEnd(s, n + 2)
                     value == DictGet(special.dict, SubSeq(s, n + 2, k), <<>>)
                 IN (IF value # <<>> THEN value ELSE SubSeq(s, k + 2, e - 1))
                    \o SubstituteNamed(s, special, e + 1)

\* C6: without routines_args and with the mapping of the special
\* arguments, each resolved line is the raw line with every ${key=default}
\* replaced by the value of key when it is given and not empty and by
\* default otherwise, the rest of the line unchanged.
C6_NamedSubstitution ==
    (/\ pc = "append_exit"
     /\ routines_args = <<>>
     /\ special_arguments.supplied
     /\ DictKeys(special_arguments.dict) = special_arguments_values) =>
        lines = [n \in 1..Len(raw_lines) |->
                    SubstituteNamed(raw_lines[n], special_arguments, 1)]

\* An exit directive: one of the commands of the line, which "/" separates,
\* is exit.
IsExitDirective(l) == \E c \in Range(str_split(l, SLASH)) : str_split_ws(c) = <<S_exit>>

\* C7: in test mode the lines that go on to the translator end with an exit
\* directive: one is appended to the resolved lines when their last line is
\* not one, and none when it is.
C7_EndsWithExit ==
    (test_mode /\ pc = "export") =>
        LET resolved == ResolveLines(raw_lines, routines_args, special_arguments)
        IN /\ IsExitDirective(lines[Len(lines)])
           /\ lines = IF IsExitDirective(resolved[Len(resolved)])
                      THEN resolved
                      ELSE Append(resolved, S_exit)

\* An export directive: the line begins with "export " and names a folder.
IsExportDirective(l) ==
    /\ StartsWithAt(l, 1, S_export_sp)
    /\ str_rstrip(SubSeq(l, Len(S_export_sp) + 1, Len(l))) # <<>>

\* C8: when the first line is an export directive, the invocation is the
\* directive with its folder followed by the path of the other lines; when
\* it is not, no line is removed and the invocation is the path of all lines.
C8_ExportExtraction ==
    pc = "launch" =>
        LET resolved == ResolveLines(raw_lines, routines_args, special_arguments)
            all == IF test_mode THEN AppendExit(resolved) ELSE resolved
            folder == str_rstrip(SubSeq(all[1], Len(S_export_sp) + 1, Len(all[1])))
        IN IF IsExportDirective(all[1])
           THEN /\ lines = Tail(all)
                /\ file_cmds = << S_export_sp \o folder \o TranslatedPath(Tail(all)) >>
           ELSE /\ lines = all
                /\ file_cmds = << TranslatedPath(all) >>

IsProgress(e) == e.src \in {"progress_green", "progress_red"}

\* C9: the redirection of standard output lasts for the replay of one
\* script: when run_scripts has returned or raised, standard output is the
\* stream it was before the call, and every progress line of the batch went
\* to that stream, none into a capture file.
C9_StdoutRestored ==
    /\ pc \in {"returned", "raised"} => (stdout = "tty" /\ saved = <<>>)
    /\ bpc \in {"loop", "done", "escaped"} => (stdout = "tty" /\ saved = <<>>)
    /\ \A n \in 1..Len(out) : IsProgress(out[n]) => out[n].to = "tty"

\* A silent batch at its end: one replay was captured to a file and
\* returned, another was captured and raised, and both have their progress
\* line.
C9_Witness ==
    /\ bpc = "done"
    /\ ~verbose
    /\ SUCCESSES >= 1
    /\ \E e \in fails : e.value.exception = "Exception"
    /\ Cardinality({ n \in 1..Len(out) :
                       out[n].src = "terminal" /\ out[n].to = "file" }) >= 2
    /\ Cardinality({ n \in 1..Len(out) : IsProgress(out[n]) }) >= 2

Said(kind) == \E n \in 1..Len(out) : out[n].src = kind

\* C10: for a script path that does not exist a diagnostic is emitted;
\* outside test mode the interpreter is launched with no script and the call
\* completes without an attempt to read the script; in test mode the
\* interpreter is not launched with no script.
C10_MissingScript ==
    (pc \in {"returned", "raised"} /\ ~rs_exists) =>
        /\ Said("doesnt_exist")
        /\ test_mode => ~Said("terminal_interactive")
        /\ ~test_mode =>
               /\ Said("terminal_interactive")
               /\ exc # "FileNotFoundError"

====
